---------------------------- MODULE Spec2Model ----------------------------
(***************************************************************************)
(* scholar-alert-digest: model of main.go.                                 *)
(*                                                                         *)
(* Go strings are modelled as sequences of byte values, so that trimming,  *)
(* prefix stripping, slicing and URL-unescaping are computed the way the   *)
(* standard library computes them rather than assumed.                     *)
(***************************************************************************)
EXTENDS Integers, Sequences, FiniteSets, TLC

VARIABLES
    pc,            \* position of main(): see the actions of the run
    exitCode,      \* process exit status, -1 while running
    markRead,      \* flag -mark
    ouputHTML,     \* flag -html
    listLabels,    \* flag -labels
    gmailLabel,    \* the global *gmailLabel (flag -l)
    envLabel,      \* value of SAD_LABEL, None when unset
    queriedLabel,  \* label handed to gmailutils.UnreadMessagesInLabel
    messages,      \* []*gmail.Message returned by the fetch
    errCount,      \* results of extractPapersFromMsgs
    titlesCount,
    uniqTitles,
    stdout,        \* report lines written to standard output
    batchCalls,    \* BatchModify requests issued, each its Ids
    logged,        \* log lines of interest, in order
    msg,           \* input of a single extractPapersFromMsg call
    extracted,     \* its outcome
    text,          \* input of a single separateFirstLine call
    lines,         \* its result
    sm,            \* the map given to a single sortedKeys call
    keys,          \* its result
    called         \* whether the single call has been made

vars == <<pc, exitCode, markRead, ouputHTML, listLabels, gmailLabel, envLabel,
          queriedLabel, messages, errCount, titlesCount, uniqTitles, stdout,
          batchCalls, logged, msg, extracted, text, lines, sm, keys, called>>

runVars == <<pc, exitCode, markRead, ouputHTML, listLabels, gmailLabel,
             envLabel, queriedLabel, messages, errCount, titlesCount,
             uniqTitles, stdout, batchCalls, logged>>

None == "none"

-----------------------------------------------------------------------------
(* Strings as byte sequences *)

Ascii ==
    ("LF" :> 10) @@ ("SP" :> 32) @@ ("%" :> 37) @@ ("&" :> 38) @@ ("+" :> 43)
    @@ ("." :> 46) @@ ("/" :> 47) @@ ("1" :> 49) @@ ("2" :> 50) @@ ("3" :> 51)
    @@ (":" :> 58) @@ ("=" :> 61) @@ ("?" :> 63) @@ ("A" :> 65) @@ ("B" :> 66)
    @@ ("_" :> 95) @@ ("a" :> 97) @@ ("b" :> 98) @@ ("c" :> 99) @@ ("e" :> 101)
    @@ ("g" :> 103) @@ ("h" :> 104) @@ ("l" :> 108) @@ ("m" :> 109)
    @@ ("o" :> 111) @@ ("p" :> 112) @@ ("r" :> 114) @@ ("s" :> 115)
    @@ ("t" :> 116) @@ ("u" :> 117) @@ ("x" :> 120) @@ ("z" :> 122)

\* The bytes of a string given as a sequence of its characters.
Str(chars) == [i \in 1..Len(chars) |-> Ascii[chars[i]]]

Range(s) == {s[i] : i \in 1..Len(s)}

SeqsUpTo(S, n) == UNION {[1..k -> S] : k \in 0..n}

Min(a, b) == IF a < b THEN a ELSE b

\* s[from:to] of Go (0-based, to exclusive), for 0 <= from <= to <= len(s).
Slice(s, from, to) == SubSeq(s, from + 1, to)

\* const scholarURL
scholarURL ==
    Str(<<"h","t","t","p",":","/","/","s","c","h","o","l","a","r",".",
          "g","o","o","g","l","e",".","c","o","m","/","s","c","h","o","l","a","r",
          "_","u","r","l","?","u","r","l","=">>)

\* const labelName
labelName == "[-oss-]-_ml-in-se"

IsSpace(b) == b \in {9, 10, 11, 12, 13, 32}

RECURSIVE TrimLeft(_)
TrimLeft(s) ==
    IF s # <<>> /\ IsSpace(Head(s)) THEN TrimLeft(Tail(s)) ELSE s

RECURSIVE TrimRight(_)
TrimRight(s) ==
    IF s # <<>> /\ IsSpace(s[Len(s)])
    THEN TrimRight(SubSeq(s, 1, Len(s) - 1))
    ELSE s

\* strings.TrimSpace
TrimSpace(s) == TrimRight(TrimLeft(s))

HasPrefix(s, prefix) ==
    Len(s) >= Len(prefix) /\ SubSeq(s, 1, Len(prefix)) = prefix

\* strings.TrimPrefix
TrimPrefix(s, prefix) ==
    IF HasPrefix(s, prefix) THEN SubSeq(s, Len(prefix) + 1, Len(s)) ELSE s

\* strings.Index(s, string(b)) for a one-byte needle: 0-based, -1 when absent.
Index(s, b) ==
    IF \E i \in 1..Len(s) : s[i] = b
    THEN (CHOOSE i \in 1..Len(s) : s[i] = b /\ \A j \in 1..(i - 1) : s[j] # b) - 1
    ELSE -1

\* strings.ReplaceAll(s, string(b), "")
RemoveAll(s, b) == SelectSeq(s, LAMBDA x : x # b)

IsHex(b) == b \in (48..57) \cup (65..70) \cup (97..102)

Unhex(b) ==
    IF b \in 48..57 THEN b - 48
    ELSE IF b \in 97..102 THEN b - 97 + 10
    ELSE IF b \in 65..70 THEN b - 65 + 10
    ELSE 0

\* First pass of url.unescape: every '%' is followed by two hex digits.
RECURSIVE EscapesValid(_)
EscapesValid(s) ==
    IF s = <<>> THEN TRUE
    ELSE IF Head(s) = Ascii["%"]
    THEN /\ Len(s) >= 3
         /\ IsHex(s[2])
         /\ IsHex(s[3])
         /\ EscapesValid(SubSeq(s, 4, Len(s)))
    ELSE EscapesValid(Tail(s))

\* Second pass of url.unescape in query-component mode.
RECURSIVE UnescapeBytes(_)
UnescapeBytes(s) ==
    IF s = <<>> THEN <<>>
    ELSE IF Head(s) = Ascii["%"]
    THEN <<Unhex(s[2]) * 16 + Unhex(s[3])>> \o UnescapeBytes(SubSeq(s, 4, Len(s)))
    ELSE IF Head(s) = Ascii["+"]
    THEN <<Ascii["SP"]>> \o UnescapeBytes(Tail(s))
    ELSE <<Head(s)>> \o UnescapeBytes(Tail(s))

\* url.QueryUnescape: [err, val]
QueryUnescape(s) ==
    IF EscapesValid(s)
    THEN [err |-> FALSE, val |-> UnescapeBytes(s)]
    ELSE [err |-> TRUE, val |-> <<>>]

-----------------------------------------------------------------------------
(* separateFirstLine *)

\* n := 80
FirstLineLen == 80

separateFirstLine_NoClean(t) ==
    IF Len(t) < FirstLineLen
    THEN <<t, <<>>>>
    ELSE <<Slice(t, 0, FirstLineLen), Slice(t, FirstLineLen, Len(t))>>

separateFirstLine(t) ==
    LET cleaned == RemoveAll(t, Ascii["LF"])
    IN  IF Len(cleaned) < FirstLineLen
        THEN <<cleaned, <<>>>>
        ELSE <<Slice(cleaned, 0, FirstLineLen),
               Slice(cleaned, FirstLineLen, Len(cleaned))>>

-----------------------------------------------------------------------------
(* extractPapersFromMsg *)

\* type abstract, type paper
Paper(title, url, abs) ==
    [Title |-> title, URL |-> url,
     Abstract |-> [Full |-> abs,
                   FirstLine |-> separateFirstLine(abs)[1],
                   RestLines |-> separateFirstLine(abs)[2]]]

\* A message as the extractor sees it: its Id, whether
\* gmailutils.MessageTextBody or htmlquery.Parse fails on it, and the inner
\* texts of the nodes the three XPath queries select in its body.
Message(id, bodyErr, parseErr, titles, urls, abss) ==
    [Id |-> id, bodyErr |-> bodyErr, parseErr |-> parseErr,
     titles |-> titles, urls |-> urls, abss |-> abss]

\* The loop over titles; i is the 1-based position of the entry at hand.
\* abss[i] and longURL[:strings.Index(longURL, "&")] panic when out of range.
RECURSIVE ExtractLoop(_, _, _)
ExtractLoop(m, i, acc) ==
    IF i > Len(m.titles) THEN acc
    ELSE IF i > Len(m.abss) THEN [acc EXCEPT !.kind = "panic"]
    ELSE
        LET title   == TrimSpace(m.titles[i])
            abs     == TrimSpace(m.abss[i])
            longURL == TrimPrefix(m.urls[i], scholarURL)
            amp     == Index(longURL, Ascii["&"])
        IN  IF amp < 0 THEN [acc EXCEPT !.kind = "panic"]
            ELSE
                LET u == QueryUnescape(Slice(longURL, 0, amp))
                IN  IF u.err
                    THEN ExtractLoop(m, i + 1, [acc EXCEPT !.skipped = @ + 1])
                    ELSE ExtractLoop(m, i + 1,
                            [acc EXCEPT !.papers = Append(@, Paper(title, u.val, abs))])

\* Outcome of extractPapersFromMsg: kind "ok" (papers, nil), "err" (nil, error)
\* or "panic" (a run-time panic); skipped counts the "Skipping paper" log lines.
extractPapersFromMsg(m) ==
    LET none == [kind |-> "err", papers |-> <<>>, skipped |-> 0]
    IN  IF m.bodyErr THEN none
        ELSE IF m.parseErr THEN none
        ELSE IF Len(m.titles) # Len(m.urls) THEN none
        ELSE ExtractLoop(m, 1, [kind |-> "ok", papers |-> <<>>, skipped |-> 0])

-----------------------------------------------------------------------------
(* extractPapersFromMsgs *)

\* uniqTitles[paper]++
Incr(m, p) ==
    IF p \in DOMAIN m THEN [m EXCEPT ![p] = @ + 1] ELSE m @@ (p :> 1)

RECURSIVE CountAll(_, _)
CountAll(m, papers) ==
    IF papers = <<>> THEN m ELSE CountAll(Incr(m, Head(papers)), Tail(papers))

EmptyMap == [p \in {} |-> 0]

AggStep_Assign(acc, m) ==
    LET r == extractPapersFromMsg(m)
    IN  IF r.kind = "panic" THEN [acc EXCEPT !.kind = "panic"]
        ELSE IF r.kind = "err" THEN [acc EXCEPT !.errCount = @ + 1]
        ELSE [acc EXCEPT !.titlesCount = Len(r.papers),
                         !.uniqTitles = CountAll(@, r.papers)]

\* One iteration of the loop over messages.
AggStep(acc, m) ==
    LET r == extractPapersFromMsg(m)
    IN  IF r.kind = "panic" THEN [acc EXCEPT !.kind = "panic"]
        ELSE IF r.kind = "err" THEN [acc EXCEPT !.errCount = @ + 1]
        ELSE [acc EXCEPT !.titlesCount = @ + Len(r.papers),
                         !.uniqTitles = CountAll(@, r.papers)]

RECURSIVE AggLoop(_, _)
AggLoop(acc, ms) ==
    IF ms = <<>> \/ acc.kind = "panic" THEN acc
    ELSE AggLoop(AggStep(acc, Head(ms)), Tail(ms))

\* Outcome of extractPapersFromMsgs: kind "ok" with the three results, or
\* "panic" when an extraction panicked (the results are then never returned).
extractPapersFromMsgs(ms) ==
    LET r == AggLoop([kind |-> "ok", errCount |-> 0, titlesCount |-> 0,
                      uniqTitles |-> EmptyMap], ms)
    IN  IF r.kind = "panic"
        THEN [kind |-> "panic", errCount |-> 0, titlesCount |-> 0,
              uniqTitles |-> EmptyMap]
        ELSE r

-----------------------------------------------------------------------------
(* sortedMap, sortedKeys *)

\* func (sm *sortedMap) Len
smLen(smv) == Cardinality(DOMAIN smv.m)

Less_Ascending(smv, i, j) == smv.m[smv.s[i]] < smv.m[smv.s[j]]

\* func (sm *sortedMap) Less
Less(smv, i, j) == smv.m[smv.s[i]] > smv.m[smv.s[j]]

\* func (sm *sortedMap) Swap
Swap(smv, i, j) ==
    [smv EXCEPT !.s = [@ EXCEPT ![i] = smv.s[j], ![j] = smv.s[i]]]

\* sort.Sort on fewer than 12 elements is an insertion sort driven by
\* Len, Less and Swap (positions are 1-based here).
RECURSIVE InsertDown(_, _)
InsertDown(smv, j) ==
    IF j > 1 /\ Less(smv, j, j - 1)
    THEN InsertDown(Swap(smv, j, j - 1), j - 1)
    ELSE smv

RECURSIVE InsertionSort(_, _)
InsertionSort(smv, i) ==
    IF i > smLen(smv) THEN smv ELSE InsertionSort(InsertDown(smv, i), i + 1)

\* The orders in which `for key := range m` may visit the keys of m.
RangeOrders(m) ==
    {o \in [1..Cardinality(DOMAIN m) -> DOMAIN m] :
        \A i, j \in DOMAIN o : i # j => o[i] # o[j]}

\* sortedKeys(m), given the order in which range visited the keys.
sortedKeys(m, order) == InsertionSort([m |-> m, s |-> order], 2).s

-----------------------------------------------------------------------------
(* Inputs *)

MaxMsgs == 2
MaxEntries == 2
MaxTextLen == 110
MaxGap == 3
MaxCount == 2

Url1 == Str(<<"u", "1">>)
Url2 == Str(<<"u", "2">>)

\* hrefs of alert entries
HrefU1      == scholarURL \o Str(<<"u", "1", "&", "x">>)
HrefU2      == scholarURL \o Str(<<"u", "2", "&", "x">>)
HrefU1Esc   == scholarURL \o Str(<<"u", "%", "3", "1", "&", "x">>)
HrefBadEsc  == scholarURL \o Str(<<"u", "%", "z", "1", "&", "x">>)
HrefNoAmp   == scholarURL \o Str(<<"u", "1">>)
HrefBare    == Str(<<"u", "2", "&", "x">>)

Hrefs == {HrefU1, HrefU2, HrefU1Esc, HrefBadEsc, HrefNoAmp, HrefBare}

TitleA == Str(<<"A">>)
TitleB == Str(<<"SP", "B", "LF">>)
TitleTexts == {TitleA, TitleB}

Abs1 == Str(<<"a", "LF", "b">>)
Abs2 == Str(<<"c">>)
AbsTexts == {Abs1, Abs2}

\* Every message with at most MaxEntries nodes per query.
ExtractInputs ==
    {Message("m", TRUE, FALSE, <<>>, <<>>, <<>>),
     Message("m", FALSE, TRUE, <<>>, <<>>, <<>>)}
    \cup {Message("m", FALSE, FALSE, t, u, a) :
            t \in SeqsUpTo(TitleTexts, MaxEntries),
            u \in SeqsUpTo(Hrefs, MaxEntries),
            a \in SeqsUpTo(AbsTexts, MaxEntries)}

\* The unread alert messages of the mailbox.
MsgAB       == Message("id1", FALSE, FALSE, <<TitleA, TitleB>>, <<HrefU1, HrefU2>>, <<Abs1, Abs2>>)
MsgA        == Message("id2", FALSE, FALSE, <<TitleA>>, <<HrefU1Esc>>, <<Abs1>>)
MsgAOtherAbs == Message("id3", FALSE, FALSE, <<TitleA>>, <<HrefU1>>, <<Abs2>>)
MsgNoBody   == Message("id4", TRUE, FALSE, <<>>, <<>>, <<>>)
MsgBadHTML  == Message("id5", FALSE, TRUE, <<>>, <<>>, <<>>)
MsgMismatch == Message("id6", FALSE, FALSE, <<TitleA, TitleB>>, <<HrefU1>>, <<Abs1, Abs2>>)
MsgBadEsc   == Message("id7", FALSE, FALSE, <<TitleB, TitleA>>, <<HrefBadEsc, HrefBare>>, <<Abs2, Abs1>>)
MsgNoAmp    == Message("id8", FALSE, FALSE, <<TitleB>>, <<HrefNoAmp>>, <<Abs2>>)
MsgNoAbs    == Message("id9", FALSE, FALSE, <<TitleB>>, <<HrefU2>>, <<>>)
MsgEmpty    == Message("id10", FALSE, FALSE, <<>>, <<>>, <<>>)

Mailbox ==
    {MsgAB, MsgA, MsgAOtherAbs, MsgNoBody, MsgBadHTML, MsgMismatch, MsgBadEsc,
     MsgNoAmp, MsgNoAbs, MsgEmpty}

\* gmailutils.UnreadMessagesInLabel: some unread messages, each once.
UnreadMessagesInLabel(label) ==
    {ms \in SeqsUpTo(Mailbox, MaxMsgs) :
        \A i, j \in DOMAIN ms : i # j => ms[i] # ms[j]}

\* The text of len bytes without a newline: "bcabca..."
Base(len) ==
    [i \in 1..len |->
        IF i % 3 = 0 THEN Ascii["a"]
        ELSE IF i % 3 = 1 THEN Ascii["b"]
        ELSE Ascii["c"]]

\* Abstract texts of every length up to MaxTextLen: Base with a newline
\* put in after every gap of its bytes (none when gap = 0).
TextOf(len, gap) ==
    [i \in 1..len |->
        IF gap > 0 /\ i % (gap + 1) = 0 THEN Ascii["LF"]
        ELSE Base(len)[IF gap > 0 THEN i - (i \div (gap + 1)) ELSE i]]

Texts == {TextOf(len, gap) : len \in 0..MaxTextLen, gap \in 0..MaxGap}

PaperA  == Paper(TitleA, Url1, Abs1)
PaperA2 == Paper(TitleA, Url1, Abs2)
PaperB  == Paper(TrimSpace(TitleB), Url2, Abs2)
PaperC  == Paper(TitleA, Url2, <<>>)

SortPapers == {PaperA, PaperA2, PaperB, PaperC}

\* Aggregation maps: some papers, each with a count in 1..MaxCount, and the
\* maps extractPapersFromMsgs builds from the mailbox.
SortMaps ==
    UNION {[ps -> 1..MaxCount] : ps \in SUBSET SortPapers}
    \cup {extractPapersFromMsgs(ms).uniqTitles : ms \in UnreadMessagesInLabel(labelName)}

-----------------------------------------------------------------------------
(* Idle values of the variables a specification does not use *)

\* Nothing written to standard output (yet).
NoOutput ==
    [format |-> "none", UnreadEmails |-> 0, TotalPapers |-> 0, UniqPapers |-> 0,
     entries |-> <<>>]

IdleRun ==
    /\ pc = "idle" /\ exitCode = -1
    /\ markRead = FALSE /\ ouputHTML = FALSE /\ listLabels = FALSE
    /\ gmailLabel = labelName /\ envLabel = None /\ queriedLabel = None
    /\ messages = <<>> /\ errCount = 0 /\ titlesCount = 0
    /\ uniqTitles = EmptyMap /\ stdout = NoOutput /\ batchCalls = <<>>
    /\ logged = <<>>

IdleExtract ==
    /\ msg = Message("", FALSE, FALSE, <<>>, <<>>, <<>>)
    /\ extracted = [kind |-> "none", papers |-> <<>>, skipped |-> 0]

IdleSplit == text = <<>> /\ lines = <<>>

IdleSort == sm = EmptyMap /\ keys = <<>>

-----------------------------------------------------------------------------
(* A single call of extractPapersFromMsg *)

InitExtract ==
    /\ msg \in ExtractInputs
    /\ extracted = [kind |-> "none", papers |-> <<>>, skipped |-> 0]
    /\ called = FALSE
    /\ IdleRun /\ IdleSplit /\ IdleSort

CallExtract ==
    /\ ~called
    /\ called' = TRUE
    /\ extracted' = extractPapersFromMsg(msg)
    /\ UNCHANGED <<runVars, msg, text, lines, sm, keys>>

SpecExtract == InitExtract /\ [][CallExtract]_vars

(* A single call of separateFirstLine *)

InitSplit ==
    /\ text \in Texts
    /\ lines = <<>>
    /\ called = FALSE
    /\ IdleRun /\ IdleExtract /\ IdleSort

CallSeparateFirstLine ==
    /\ ~called
    /\ called' = TRUE
    /\ lines' = separateFirstLine(text)
    /\ UNCHANGED <<runVars, msg, extracted, text, sm, keys>>

SpecSplit == InitSplit /\ [][CallSeparateFirstLine]_vars

(* A single call of sortedKeys *)

InitSort ==
    /\ sm \in SortMaps
    /\ keys = <<>>
    /\ called = FALSE
    /\ IdleRun /\ IdleExtract /\ IdleSplit

CallSortedKeys ==
    /\ ~called
    /\ called' = TRUE
    /\ \E order \in RangeOrders(sm) : keys' = sortedKeys(sm, order)
    /\ UNCHANGED <<runVars, msg, extracted, text, lines, sm>>

SpecSort == InitSort /\ [][CallSortedKeys]_vars

-----------------------------------------------------------------------------
(* A run of main *)

Labels == {labelName, "custom-label"}
EnvLabels == {None, "env-label"}

pureVars == <<msg, extracted, text, lines, sm, keys, called>>

Init ==
    /\ pc = "start"
    /\ exitCode = -1
    /\ markRead \in BOOLEAN
    /\ ouputHTML \in BOOLEAN
    /\ listLabels \in BOOLEAN
    /\ gmailLabel \in Labels
    /\ envLabel \in EnvLabels
    /\ queriedLabel = None
    /\ messages = <<>>
    /\ errCount = 0
    /\ titlesCount = 0
    /\ uniqTitles = EmptyMap
    /\ stdout = NoOutput
    /\ batchCalls = <<>>
    /\ logged = <<>>
    /\ called = FALSE
    /\ IdleExtract /\ IdleSplit /\ IdleSort

\* os.Exit / log.Fatalf / an unrecovered panic / return from main
Exit(code) == pc' = "exit" /\ exitCode' = code

\* gmailutils.NewClient, gmail.New
NewClient ==
    /\ pc = "start"
    /\ \/ /\ pc' = "client"
          /\ UNCHANGED <<exitCode, logged>>
       \/ /\ Exit(1)
          /\ logged' = Append(logged, "Unable to create a Gmail client")
    /\ UNCHANGED <<markRead, ouputHTML, listLabels, gmailLabel, envLabel,
                   queriedLabel, messages, errCount, titlesCount, uniqTitles,
                   stdout, batchCalls, pureVars>>

\* if *listLabels
PrintAllLabels ==
    /\ pc = "client"
    /\ listLabels
    /\ Exit(0)
    /\ UNCHANGED <<markRead, ouputHTML, listLabels, gmailLabel, envLabel,
                   queriedLabel, messages, errCount, titlesCount, uniqTitles,
                   stdout, batchCalls, logged, pureVars>>

\* fetchGmailMsgs(srv, user, *gmailLabel): the argument is the flag's value at
\* the call; SAD_LABEL then replaces the global, and the query uses the argument.
fetchGmailMsgs ==
    /\ pc = "client"
    /\ ~listLabels
    /\ LET label == gmailLabel
       IN  /\ gmailLabel' = IF envLabel # None THEN envLabel ELSE gmailLabel
           /\ queriedLabel' = label
           /\ messages' \in UnreadMessagesInLabel(label)
    /\ logged' = Append(logged, "unread messages found")
    /\ pc' = "fetched"
    /\ UNCHANGED <<exitCode, markRead, ouputHTML, listLabels, envLabel,
                   errCount, titlesCount, uniqTitles, stdout, batchCalls,
                   pureVars>>

\* errCount, titlesCount, uniqTitles := extractPapersFromMsgs(messages)
ExtractPapers ==
    /\ pc = "fetched"
    /\ LET r == extractPapersFromMsgs(messages)
       IN  IF r.kind = "panic"
           THEN /\ Exit(2)
                /\ UNCHANGED <<errCount, titlesCount, uniqTitles>>
           ELSE /\ pc' = "aggregated"
                /\ errCount' = r.errCount
                /\ titlesCount' = r.titlesCount
                /\ uniqTitles' = r.uniqTitles
                /\ UNCHANGED exitCode
    /\ UNCHANGED <<markRead, ouputHTML, listLabels, gmailLabel, envLabel,
                   queriedLabel, messages, stdout, batchCalls, logged,
                   pureVars>>

\* The data mdTemplText renders: the header counts and one entry per key of
\* sortedKeys .Papers with its count.
MdReport(format, messagesCount, total, papers, order) ==
    LET ks == sortedKeys(papers, order)
    IN  [format |-> format, UnreadEmails |-> messagesCount,
         TotalPapers |-> total, UniqPapers |-> Cardinality(DOMAIN papers),
         entries |-> [i \in 1..Len(ks) |-> [paper |-> ks[i], count |-> papers[ks[i]]]]]

\* generateAndPrintHTML: the template renders into a buffer, which cannot
\* fail to take the bytes.
generateAndPrintHTML ==
    /\ pc = "aggregated"
    /\ ouputHTML
    /\ \E order \in RangeOrders(uniqTitles) :
         stdout' = MdReport("html", Len(messages), titlesCount, uniqTitles, order)
    /\ pc' = "reported"
    /\ UNCHANGED <<exitCode, markRead, ouputHTML, listLabels, gmailLabel,
                   envLabel, queriedLabel, messages, errCount, titlesCount,
                   uniqTitles, batchCalls, logged, pureVars>>

\* generateAndPrintMarkdown: the template renders into os.Stdout; when
\* Execute returns an error the run ends in log.Fatalf.
generateAndPrintMarkdown ==
    /\ pc = "aggregated"
    /\ ~ouputHTML
    /\ \/ /\ \E order \in RangeOrders(uniqTitles) :
               stdout' = MdReport("md", Len(messages), titlesCount, uniqTitles, order)
          /\ pc' = "reported"
          /\ UNCHANGED <<exitCode, logged>>
       \/ /\ Exit(1)
          /\ logged' = Append(logged, "template execution failed")
          /\ UNCHANGED stdout
    /\ UNCHANGED <<markRead, ouputHTML, listLabels, gmailLabel, envLabel,
                   queriedLabel, messages, errCount, titlesCount, uniqTitles,
                   batchCalls, pureVars>>

MsgIds_OnlyExtracted(ms) ==
    LET ok == SelectSeq(ms, LAMBDA m : extractPapersFromMsg(m).kind = "ok")
    IN  [i \in 1..Len(ok) |-> ok[i].Id]

\* msgIds = append(msgIds, msg.Id) for every message
MsgIds(ms) == [i \in 1..Len(ms) |-> ms[i].Id]

markGmailMsgsUnread_Always ==
    /\ pc = "reported"
    /\ batchCalls' = Append(batchCalls, MsgIds(messages))
    /\ \/ UNCHANGED logged
       \/ logged' = Append(logged, "failed to batch-delete label")
    /\ pc' = "marked"
    /\ UNCHANGED <<exitCode, markRead, ouputHTML, listLabels, gmailLabel,
                   envLabel, queriedLabel, messages, errCount, titlesCount,
                   uniqTitles, stdout, pureVars>>

\* if *markRead { markGmailMsgsUnread(srv, user, messages) }: one BatchModify
\* request, whose failure is only logged.
markGmailMsgsUnread ==
    /\ pc = "reported"
    /\ markRead
    /\ batchCalls' = Append(batchCalls, MsgIds(messages))
    /\ \/ UNCHANGED logged
       \/ logged' = Append(logged, "failed to batch-delete label")
    /\ pc' = "marked"
    /\ UNCHANGED <<exitCode, markRead, ouputHTML, listLabels, gmailLabel,
                   envLabel, queriedLabel, messages, errCount, titlesCount,
                   uniqTitles, stdout, pureVars>>

\* *markRead is false
SkipMark ==
    /\ pc = "reported"
    /\ ~markRead
    /\ pc' = "marked"
    /\ UNCHANGED <<exitCode, markRead, ouputHTML, listLabels, gmailLabel,
                   envLabel, queriedLabel, messages, errCount, titlesCount,
                   uniqTitles, stdout, batchCalls, logged, pureVars>>

\* if errCount != 0 { log.Printf("Errors: ...") }, and main returns
Return ==
    /\ pc = "marked"
    /\ logged' = IF errCount # 0 THEN Append(logged, "Errors") ELSE logged
    /\ Exit(0)
    /\ UNCHANGED <<markRead, ouputHTML, listLabels, gmailLabel, envLabel,
                   queriedLabel, messages, errCount, titlesCount, uniqTitles,
                   stdout, batchCalls, pureVars>>

Next ==
    \/ NewClient
    \/ PrintAllLabels
    \/ fetchGmailMsgs
    \/ ExtractPapers
    \/ generateAndPrintHTML
    \/ generateAndPrintMarkdown
    \/ markGmailMsgsUnread
    \/ SkipMark
    \/ Return

Spec == Init /\ [][Next]_vars

-----------------------------------------------------------------------------
(* Properties *)

\* The run has got past extractPapersFromMsgs and holds its results.
Aggregated == pc \in {"aggregated", "reported", "marked"}

\* The fetch has been made.
Fetched == queriedLabel # None

\* extractPapersFromMsg returns an error for m.
Errored(m) == m.bodyErr \/ m.parseErr \/ Len(m.titles) # Len(m.urls)

RECURSIVE Concat(_)
Concat(ss) == IF ss = <<>> THEN <<>> ELSE Head(ss) \o Concat(Tail(ss))

\* The papers of the non-errored messages of ms, in order.
Mentions(ms) ==
    Concat([i \in 1..Len(ms) |->
              IF Errored(ms[i]) THEN <<>> ELSE extractPapersFromMsg(ms[i]).papers])

Occurrences(ps, P(_)) == Cardinality({i \in 1..Len(ps) : P(ps[i])})

\* C1: in the map extractPapersFromMsgs builds, the key identity is the pair
\* (Title, URL): one entry per distinct pair, whatever the abstracts, and its
\* count is the number of mentions of the pair.
C1_TitleURLIdentity ==
    Aggregated =>
        /\ \A k1, k2 \in DOMAIN uniqTitles :
             (k1.Title = k2.Title /\ k1.URL = k2.URL) => k1 = k2
        /\ \A k \in DOMAIN uniqTitles :
             uniqTitles[k] =
               Occurrences(Mentions(messages),
                           LAMBDA q : q.Title = k.Title /\ q.URL = k.URL)

\* C2: the label handed to UnreadMessagesInLabel is the value of SAD_LABEL
\* when it is set, and the value of the -l flag otherwise.
C2_EnvOverridesLabel ==
    Fetched =>
        queriedLabel = (IF envLabel # None THEN envLabel ELSE gmailLabel)

\* The part of an href that is URL-decoded: after the prefix, up to the
\* first '&' when there is one.
DecodedPart(href) ==
    LET longURL == TrimPrefix(href, scholarURL)
        amp     == Index(longURL, Ascii["&"])
    IN  IF amp < 0 THEN longURL ELSE Slice(longURL, 0, amp)

DecodeFailures(m) ==
    Cardinality({i \in 1..Len(m.urls) : QueryUnescape(DecodedPart(m.urls[i])).err})

\* C3: on a message with as many title nodes as url nodes, whatever the
\* number of abstract nodes and whether or not an href holds an '&',
\* extractPapersFromMsg returns normally, without an error, as many papers
\* as titles less the entries whose URL would not decode.
C3_EqualCountsExtract ==
    (called /\ ~msg.bodyErr /\ ~msg.parseErr /\ Len(msg.titles) = Len(msg.urls)) =>
        /\ extracted.kind = "ok"
        /\ Len(extracted.papers) = Len(msg.titles) - DecodeFailures(msg)

\* C4: for every sequence of messages extractPapersFromMsgs returns the
\* number of errored messages, the number of papers of the others, and per
\* key its number of occurrences among them.
C4_AggregateResults ==
    (Fetched /\ pc # "fetched") =>
        /\ exitCode # 2
        /\ errCount = Occurrences(messages, Errored)
        /\ titlesCount = Len(Mentions(messages))
        /\ DOMAIN uniqTitles = Range(Mentions(messages))
        /\ \A k \in DOMAIN uniqTitles :
             uniqTitles[k] = Occurrences(Mentions(messages), LAMBDA q : q = k)

\* C5: once the messages are fetched the run ends with exit code 0 unless
\* the template fails to render.
C5_RunCompletes ==
    (pc = "exit" /\ Fetched /\ "template execution failed" \notin Range(logged)) =>
        exitCode = 0

\* C6: sortedKeys returns every key of the map exactly once, ordered by
\* non-increasing count.
C6_SortedKeys ==
    called =>
        /\ Len(keys) = Cardinality(DOMAIN sm)
        /\ Range(keys) = DOMAIN sm
        /\ \A i, j \in 1..Len(keys) : i < j => sm[keys[i]] >= sm[keys[j]]

\* The messages [A@u1, B@u2] and [A@u1]: A, counted twice, comes before B.
C6_Witness ==
    /\ called
    /\ sm = extractPapersFromMsgs(<<MsgAB, MsgA>>).uniqTitles
    /\ Len(keys) = 2
    /\ keys[1].Title = TitleA /\ sm[keys[1]] = 2
    /\ keys[2].Title = TrimSpace(TitleB) /\ sm[keys[2]] = 1

\* The text without its newlines: every text is Base with newlines put in.
Cleaned == Base(Cardinality({i \in 1..Len(text) : text[i] # Ascii["LF"]}))

\* C7: with L the length of the text without its newlines, FirstLine has
\* length min(L, 80), FirstLine followed by RestLines is the text without
\* its newlines, and RestLines is empty when L <= 80.
C7_FirstLineSplit ==
    called =>
        /\ Len(lines) = 2
        /\ Len(lines[1]) = Min(Len(Cleaned), 80)
        /\ lines[1] \o lines[2] = Cleaned
        /\ (Len(Cleaned) <= 80 => lines[2] = <<>>)

\* A text with newlines whose cleaned length is exactly 80.
C7_Witness ==
    /\ called
    /\ Len(text) > 80
    /\ Len(Cleaned) = 80
    /\ Len(lines[1]) = 80
    /\ lines[2] = <<>>

MarkFailed == "failed to batch-delete label" \in Range(logged)

\* C8: the batch request is issued at most once, only with -mark set and
\* only after the report is written; its failure is logged and the run
\* still ends normally; without -mark no request is issued.
C8_MarkReadBestEffort ==
    /\ Len(batchCalls) <= 1
    /\ (~markRead => batchCalls = <<>>)
    /\ (batchCalls # <<>> =>
          /\ markRead
          /\ stdout # NoOutput
          /\ pc \in {"marked", "exit"}
          /\ (pc = "marked" => ENABLED Return)
          /\ (pc = "exit" => exitCode = 0))
    /\ (MarkFailed => batchCalls # <<>>)

\* The request failed, and the run ended with exit code 0.
C8_Witness ==
    /\ pc = "exit" /\ exitCode = 0
    /\ Len(batchCalls) = 1
    /\ MarkFailed

Perms(ms) ==
    {[i \in 1..Len(ms) |-> ms[f[i]]] :
        f \in {g \in [1..Len(ms) -> 1..Len(ms)] :
                 \A i, j \in 1..Len(ms) : i # j => g[i] # g[j]}}

\* C9: extractPapersFromMsgs gives every permutation of the messages the
\* outcome it gave the messages: the same errCount, titlesCount and counts
\* (or, like them, no result at all).
C9_OrderIndependent ==
    (Fetched /\ pc # "fetched") =>
        \A p \in Perms(messages) :
            LET r == extractPapersFromMsgs(p)
            IN  IF exitCode = 2
                THEN r.kind = "panic"
                ELSE /\ r.kind = "ok"
                     /\ r.errCount = errCount
                     /\ r.titlesCount = titlesCount
                     /\ r.uniqTitles = uniqTitles

\* An errored message fetched before one with two papers.
C9_Witness ==
    /\ Aggregated
    /\ messages = <<MsgNoBody, MsgAB>>
    /\ errCount = 1
    /\ titlesCount = 2
    /\ Cardinality(DOMAIN uniqTitles) = 2

\* C10: with -mark set the request's Ids are the Ids of all fetched
\* messages in fetch order, errored ones included, and the request is
\* issued also when no message was fetched.
C10_MarkedIds ==
    /\ \A c \in 1..Len(batchCalls) :
         /\ Len(batchCalls[c]) = Len(messages)
         /\ \A i \in 1..Len(messages) : batchCalls[c][i] = messages[i].Id
    /\ (markRead /\ (pc = "marked" \/ (pc = "exit" /\ exitCode = 0 /\ Fetched))) =>
          Len(batchCalls) = 1

\* An errored message, counted in errCount only, is marked as read.
C10_Witness ==
    /\ pc = "marked"
    /\ Len(messages) = 2
    /\ \E i \in 1..2 : Errored(messages[i])
    /\ errCount = 1
    /\ batchCalls = <<[i \in 1..2 |-> messages[i].Id]>>

=============================================================================
